---------------------------- MODULE Spec2Model ----------------------------
(***************************************************************************)
(* Model of the reviewer-acquisition logic of cr-cab-reviewers             *)
(* (src/src/index.js): the urgency classifier detectUrgency and the        *)
(* retrying client fetchReviewers.                                         *)
(*                                                                         *)
(* Text is modelled at two granularities.  Pull-request bodies, lines and  *)
(* checkbox labels are sequences of one-character strings, so that split,  *)
(* trim, the checkbox regular expression, toLowerCase and includes are     *)
(* computed character by character.  Diagnostics and error messages are    *)
(* sequences of words, so that message.includes('fetch') is a search for   *)
(* the word "fetch" in the message actually built.                         *)
(***************************************************************************)
EXTENDS Integers, Sequences, FiniteSets, TLC

VARIABLES
    \* ---- detectUrgency(prBody, checkboxP0, checkboxP1, checkboxP2)
    prBody,          \* the description text, a sequence of characters
    checkbox,        \* the three labels: [p0 |-> .., p1 |-> .., p2 |-> ..]
    urgency,         \* the returned tier, "none" before the call returns
    \* ---- fetchReviewers(apiKey, urgency, failOnApiError)
    apiKey,          \* the credential, a word
    failOnApiError,  \* the flag of the invocation
    fpc,             \* position: "idle", "call", "await", "sleep", "done"
    attempt,         \* the loop variable of the retry loop
    calls,           \* number of calls of fetch() issued so far
    requests,        \* the requests handed to fetch(), in order
    inflight,        \* number of calls of fetch() not yet completed
    received,        \* what each completed call yielded, in order
    delays,          \* the setTimeout delays slept so far, in order
    infos,           \* core.info messages, in order
    warnings,        \* core.warning messages, in order
    outcome,         \* "pending", "list", "null", "throw"
    result,          \* the returned list when outcome = "list"
    thrown,          \* the raised error when outcome = "throw"
    \* ---- selectRandomReviewer(reviewers, seed, prNumber)
    hash,            \* the local hash as the last hashing invocation left it
    remembered,      \* an earlier invocation kept for comparison, or NoCall
    latest,          \* the most recent invocation, or NoCall
    between,         \* an invocation with other inputs followed remembered
    \* ---- run()
    rpc,             \* position: "idle", "start", "fetch", "request", "end"
    eventName,       \* github.context.eventName
    prNumber,        \* context.payload.pull_request.number
    prAuthor,        \* context.payload.pull_request.user.login
    seed,            \* the input seed, a sequence of characters
    tokenInput,      \* the input token, "" when not supplied
    envToken,        \* process.env.GITHUB_TOKEN, "" when not set
    stages,          \* the stages entered so far, in order
    reviewRequests,  \* the calls of pulls.requestReviewers, in order
    runInfos,        \* core.info messages of run, in order
    runWarnings,     \* core.warning messages of run, in order
    failed           \* core.setFailed messages, in order

urgencyVars == <<prBody, checkbox, urgency>>
fetchVars == <<apiKey, failOnApiError, fpc, attempt, calls, requests, inflight,
               received, delays, infos, warnings, outcome, result, thrown>>
selectVars == <<hash, remembered, latest, between>>
runVars == <<rpc, eventName, prNumber, prAuthor, seed, tokenInput, envToken,
             stages, reviewRequests, runInfos, runWarnings, failed>>
vars == <<prBody, checkbox, urgency, apiKey, failOnApiError, fpc, attempt,
          calls, requests, inflight, received, delays, infos, warnings,
          outcome, result, thrown, hash, remembered, latest, between, rpc,
          eventName, prNumber, prAuthor, seed, tokenInput, envToken, stages,
          reviewRequests, runInfos, runWarnings, failed>>

(***************************************************************************)
(* Bounds of the model.                                                    *)
(***************************************************************************)
MaxLines == 3
MaxReviewers == 2

(***************************************************************************)
(* Character-level string primitives of JavaScript used by detectUrgency.  *)
(***************************************************************************)
UpperLetters == <<"A","B","C","D","E","F","G","H","I","J","K","L","M",
                  "N","O","P","Q","R","S","T","U","V","W","X","Y","Z">>
LowerLetters == <<"a","b","c","d","e","f","g","h","i","j","k","l","m",
                  "n","o","p","q","r","s","t","u","v","w","x","y","z">>

\* \s of the regular expression and the characters String.prototype.trim strips
IsWhiteSpace(c) == c \in {" ", "\t", "\r", "\n"}

\* String.prototype.toLowerCase, one character
LowerChar(c) ==
    IF \E i \in 1..26 : UpperLetters[i] = c
    THEN LowerLetters[CHOOSE i \in 1..26 : UpperLetters[i] = c]
    ELSE c

\* String.prototype.toLowerCase
toLowerCase(s) == [i \in 1..Len(s) |-> LowerChar(s[i])]

\* String.prototype.trim
RECURSIVE trimStart(_)
trimStart(s) ==
    IF s # <<>> /\ IsWhiteSpace(Head(s)) THEN trimStart(Tail(s)) ELSE s

RECURSIVE trimEnd(_)
trimEnd(s) ==
    IF s # <<>> /\ IsWhiteSpace(s[Len(s)])
    THEN trimEnd(SubSeq(s, 1, Len(s) - 1))
    ELSE s

trim(s) == trimEnd(trimStart(s))

\* String.prototype.includes
includes(s, sub) ==
    \E i \in 0..(Len(s) - Len(sub)) : SubSeq(s, i + 1, i + Len(sub)) = sub

\* prBody.split('\n'): always at least one line, the empty text gives <<"">>
RECURSIVE splitFrom(_, _, _)
splitFrom(s, i, cur) ==
    IF i > Len(s) THEN <<cur>>
    ELSE IF s[i] = "\n" THEN <<cur>> \o splitFrom(s, i + 1, <<>>)
    ELSE splitFrom(s, i + 1, Append(cur, s[i]))

splitLines(s) == splitFrom(s, 1, <<>>)

\* the regular expression [-*]\s*\[[xX]\].* matched with its first character
\* at position i of s; the trailing .* accepts any rest, the empty one too
CheckboxAt(s, i) ==
    /\ s[i] \in {"-", "*"}
    /\ \E j \in (i + 1)..(Len(s) - 2) :
          /\ \A k \in (i + 1)..(j - 1) : IsWhiteSpace(s[k])
          /\ s[j] = "["
          /\ s[j + 1] \in {"x", "X"}
          /\ s[j + 2] = "]"

\* /[-*]\s*\[[xX]\].*/.test(s): the expression carries no ^ anchor, so the
\* match may start at any position of s
CheckboxRegexTest(s) == \E i \in 1..Len(s) : CheckboxAt(s, i)

(***************************************************************************)
(* detectUrgency, src/src/index.js:252-284.                                *)
(***************************************************************************)
\* the body of the for loop for one line: the tier whose flag the line sets,
\* "none" when it sets no flag.  The else-if chain sets at most one flag.
lineFlag(line, c0, c1, c2) ==
    LET trimmed == trim(line)
        lowerLine == toLowerCase(trimmed)
    IN  IF ~CheckboxRegexTest(trimmed) THEN "none"
        ELSE IF includes(lowerLine, toLowerCase(c0)) THEN "p0"
        ELSE IF includes(lowerLine, toLowerCase(c1)) THEN "p1"
        ELSE IF includes(lowerLine, toLowerCase(c2)) THEN "p2"
        ELSE "none"

\* the flag of the first line that sets one, and no other
foundFlagsFirst(lines, c0, c1, c2) ==
    LET flagged == {i \in 1..Len(lines) : lineFlag(lines[i], c0, c1, c2) # "none"}
    IN  IF flagged = {} THEN {}
        ELSE {lineFlag(lines[CHOOSE i \in flagged : \A j \in flagged : i <= j],
                       c0, c1, c2)}

\* foundP0, foundP1, foundP2 after the loop over the lines
foundFlags(lines, c0, c1, c2) ==
    {lineFlag(lines[i], c0, c1, c2) : i \in 1..Len(lines)} \ {"none"}

\* a fallback of the middle tier instead of the lowest
DefaultUrgencyMiddle == "p1"

\* the return value when no flag is set
DefaultUrgency == "p2"

detectUrgency(body, c0, c1, c2) ==
    LET found == foundFlags(splitLines(body), c0, c1, c2)
    IN  IF "p0" \in found THEN "p0"
        ELSE IF "p1" \in found THEN "p1"
        ELSE IF "p2" \in found THEN "p2"
        ELSE DefaultUrgency

(***************************************************************************)
(* The descriptions and label configurations the classifier is run on.     *)
(***************************************************************************)
\* lines a pull-request description is assembled from
LinePool ==
    { <<>>,                                                   \* empty line
      <<"f","i","x"," ","P","0">>,                            \* prose naming a label
      <<"-"," ","[" ," ","]"," ","P","0">>,                   \* unchecked box
      <<"-"," ","[","x","]"," ","P","0">>,
      <<"*"," ","[","X","]"," ","p","1">>,
      <<"-","[","x","]"," ","P","2">>,
      <<" "," ","-"," ","[","x","]"," ","P","1"," ","\r">>,
      <<"-"," ","[","x","]"," ","P","1"," ","P","2">>,        \* two labels
      <<"-"," ","[","x","]"," ","d","o","c","s">>,            \* checked, no label
      <<"s","e","e"," ","-"," ","[","x","]"," ","P","0">>,    \* pattern inside prose
      <<"[","x","]"," ","P","0">>,                            \* box without a bullet
      <<"-"," ","[","x","]"," ","U","r","g","e","n","t">>,
      <<"*","\t","[","X","]"," ","L","O","W">>,
      <<"-"," ","[","X","]"," ","n","o","r","m","a","l">> }

\* checkbox_p0_text, checkbox_p1_text, checkbox_p2_text
LabelConfigs ==
    { [p0 |-> <<"P","0">>, p1 |-> <<"P","1">>, p2 |-> <<"P","2">>],
      [p0 |-> <<"p","0">>, p1 |-> <<"p","1">>, p2 |-> <<"p","2">>],
      [p0 |-> <<"U","R","G","E","N","T">>, p1 |-> <<"N","O","R","M","A","L">>,
       p2 |-> <<"L","o","w">>] }

\* the text whose lines are ls: the lines joined by "\n"
RECURSIVE joinLines(_)
joinLines(ls) ==
    IF Len(ls) = 0 THEN <<>>
    ELSE IF Len(ls) = 1 THEN ls[1]
    ELSE ls[1] \o <<"\n">> \o joinLines(Tail(ls))

LineSeqs(n) == UNION {[1..k -> LinePool] : k \in 0..n}

Descriptions == {joinLines(ls) : ls \in LineSeqs(MaxLines)}

(***************************************************************************)
(* Values exchanged with the CR Cab service.                               *)
(*                                                                         *)
(* A JSON entry of the reviewer sequence is [t, gk, v]: t is its          *)
(* JavaScript type; for an object, gk is the type of its githubUsername    *)
(* property ("undefined" when it has none) and v that property's value     *)
(* (the value of its other property when it has none); for a string or a   *)
(* number, v is the value written out.                                     *)
(***************************************************************************)
Str(v) == [t |-> "string", gk |-> "", v |-> v]
Num(v) == [t |-> "number", gk |-> "", v |-> v]
Obj(gk, v) == [t |-> "object", gk |-> gk, v |-> v]
Null == [t |-> "null", gk |-> "", v |-> ""]

\* entries a response's reviewer sequence is assembled from
EntryPool ==
    { Str("alice"), Str("bob"),
      Obj("string", "carol"),      \* { githubUsername: "carol" }
      Obj("string", ""),           \* { githubUsername: "" }
      Obj("number", "7"),          \* { githubUsername: 7 }
      Obj("undefined", "dave"),    \* { login: "dave" }
      Null }

EntrySeqs(n) == UNION {[1..k -> EntryPool] : k \in 0..n}

\* the parsed body of a response: kind is what response.json() yields
\* ("unparsable" when it rejects), reviewers the type of data.reviewers
Body(kind, reviewers, items) ==
    [kind |-> kind, reviewers |-> reviewers, items |-> items]

NoBody == Body("none", "undefined", <<>>)

SuccessBodies ==
    {Body("array", "undefined", es) : es \in EntrySeqs(MaxReviewers)}
    \cup {Body("object", "array", es) : es \in EntrySeqs(MaxReviewers)}
    \cup { Body("object", "undefined", <<>>),     \* {}
           Body("object", "string", <<>>),        \* { reviewers: "alice" }
           Body("number", "undefined", <<>>),     \* 42
           Body("null", "undefined", <<>>),       \* null
           Body("unparsable", "undefined", <<>>) }

\* what one call of fetch() yields: a response, or a rejection
Http(status, statusText, body) ==
    [type |-> "response", status |-> status, statusText |-> statusText,
     body |-> body, name |-> "", message |-> <<>>]

Rejection(name, message) ==
    [type |-> "rejection", status |-> 0, statusText |-> <<>>,
     body |-> NoBody, name |-> name, message |-> message]

ErrorResponses ==
    { Http(500, <<"Internal", "Server", "Error">>, NoBody),
      Http(503, <<>>, NoBody),
      Http(502, <<"upstream", "fetch", "failed">>, NoBody),
      Http(404, <<"Not", "Found">>, NoBody),
      Http(401, <<"Unauthorized">>, NoBody),
      Http(403, <<"fetch", "forbidden">>, NoBody) }

SuccessResponses == {Http(200, <<"OK">>, b) : b \in SuccessBodies}

Rejections ==
    { Rejection("TypeError", <<"fetch", "failed">>),
      Rejection("TypeError", <<"Failed", "to", "fetch">>),
      Rejection("AbortError", <<"This", "operation", "was", "aborted">>) }

FetchResults == SuccessResponses \cup ErrorResponses \cup Rejections

\* values of the input cr_cab_api_key
ApiKeys == {"test-api-key", "sk-live-1"}

\* response.ok
ok(r) == r.status >= 200 /\ r.status <= 299

\* an Error object
Err(name, message) == [name |-> name, message |-> message]
NoError == Err("", <<>>)

(***************************************************************************)
(* fetchReviewers, src/src/index.js:286-378.                               *)
(***************************************************************************)
maxRetries == 2

\* the first delay used for both retries
retryDelaysFlat == <<250, 250>>

retryDelays == <<250, 750>>

\* one fewer retry than the budget
retryAllowedOffByOne(a) == a < maxRetries - 1

\* attempt < maxRetries, the guard of both retry branches
retryAllowed(a) == a < maxRetries

\* const is5xx = status >= 500
is5xx(status) == status >= 500

\* what one pass through the loop body does: k is "continue" (sleep delay,
\* then the next attempt), "list", "null" (the two returns) or "throw"
Step(k, delay, info, warning, list, error) ==
    [k |-> k, delay |-> delay, info |-> info, warning |-> warning,
     list |-> list, error |-> error]

Continue(delay, info) == Step("continue", delay, info, <<>>, <<>>, NoError)
ReturnNull(warning) == Step("null", 0, <<>>, warning, <<>>, NoError)
ReturnList(list) == Step("list", 0, <<>>, <<>>, list, NoError)
Throw(error) == Step("throw", 0, <<>>, <<>>, <<>>, error)

\* error.message.includes('fetch')
includesFetch(message) == includes(message, <<"fetch">>)

\* JSON.stringify(reviewer) of an entry the map callback rejects
stringify(e) ==
    IF e.t = "null" THEN <<"null">>
    ELSE IF e.t = "object" /\ e.gk = "undefined" THEN <<"{login:", e.v, "}">>
    ELSE IF e.t = "object" THEN <<"{githubUsername:", e.v, "}">>
    ELSE <<e.v>>

\* a JavaScript value is truthy
truthy(t, v) ==
    \/ t = "string" /\ v # ""
    \/ t = "number" /\ v # "0"
    \/ t = "object"

\* the callback of reviewerList.map accepts the entry
entryAccepted(e) ==
    \/ e.t = "string"
    \/ e.t = "object" /\ truthy(e.gk, e.v)

\* what the callback returns for an accepted entry
entryValue(e) ==
    IF e.t = "string" THEN e ELSE [t |-> e.gk, gk |-> "", v |-> e.v]

\* reviewerList.map(...): the list, or the error of the first rejected entry
mapReviewers(list) ==
    IF \A i \in 1..Len(list) : entryAccepted(list[i])
    THEN ReturnList([i \in 1..Len(list) |-> entryValue(list[i])])
    ELSE LET bad == CHOOSE i \in 1..Len(list) :
                        /\ ~entryAccepted(list[i])
                        /\ \A j \in 1..(i - 1) : entryAccepted(list[j])
         IN  Throw(Err("Error", <<"Invalid", "reviewer", "format:">>
                                \o stringify(list[bad])))

\* a record shape that is not recognised
recordShapeRejected(data) == FALSE

\* data.reviewers && Array.isArray(data.reviewers)
recordShape(data) == data.kind = "object" /\ data.reviewers = "array"

\* lines 329-351: parse the body of a success response and normalize it
parseSuccess(data) ==
    IF data.kind = "unparsable"
    THEN Throw(Err("SyntaxError", <<"Unexpected", "token", "<", "in", "JSON">>))
    ELSE IF data.kind = "array" THEN mapReviewers(data.items)
    ELSE IF data.kind = "null"
    THEN Throw(Err("TypeError",
                   <<"Cannot", "read", "properties", "of", "null">>))
    ELSE IF recordShape(data) THEN mapReviewers(data.items)
    ELSE Throw(Err("Error", <<"Invalid", "API", "response", "format">>))

\* lines 305-326: a response that is not ok
handleNotOk(r, a, fail) ==
    IF is5xx(r.status) /\ retryAllowed(a)
    THEN Continue(retryDelays[a + 1],
                  <<"CR", "Cab", "API", "returned", ToString(r.status) \o ",",
                    "retrying", "in", ToString(retryDelays[a + 1]) \o "ms",
                    "(attempt", ToString(a + 1) \o "/"
                                \o ToString(maxRetries) \o ")">>)
    ELSE IF fail
    THEN Throw(Err("Error", <<"CR", "Cab", "API", "error:",
                              ToString(r.status)>> \o r.statusText))
    ELSE IF is5xx(r.status)
    THEN ReturnNull(<<"CR", "Cab", "API", "unavailable",
                      "(status=" \o ToString(r.status) \o ").",
                      "Skipping", "comment", "and", "continuing.">>)
    ELSE ReturnNull(<<"CR", "Cab", "API", "error",
                      "(status=" \o ToString(r.status) \o ").",
                      "Skipping", "comment", "and", "continuing.">>)

\* lines 292-351: the try block, given what the call of fetch() yielded
tryBlock(r, a, fail) ==
    IF r.type = "rejection" THEN Throw(Err(r.name, r.message))
    ELSE IF ~ok(r) THEN handleNotOk(r, a, fail)
    ELSE parseSuccess(r.body)

\* a catch block without the branch for failOnApiError
catchBlockLenient(error, a, fail) ==
    IF retryAllowed(a) /\ (error.name = "TypeError" \/ includesFetch(error.message))
    THEN Continue(retryDelays[a + 1],
                  <<"Network", "error,", "retrying", "in",
                    ToString(retryDelays[a + 1]) \o "ms",
                    "(attempt", ToString(a + 1) \o "/"
                                \o ToString(maxRetries) \o ")">>)
    ELSE ReturnNull(<<"CR", "Cab", "API", "network", "error.",
                      "Skipping", "comment", "and", "continuing.">>)

\* a catch block whose warning quotes the message of the error it caught
catchBlockQuoting(error, a, fail) ==
    IF retryAllowed(a) /\ (error.name = "TypeError" \/ includesFetch(error.message))
    THEN Continue(retryDelays[a + 1],
                  <<"Network", "error,", "retrying", "in",
                    ToString(retryDelays[a + 1]) \o "ms",
                    "(attempt", ToString(a + 1) \o "/"
                                \o ToString(maxRetries) \o ")">>)
    ELSE IF fail
    THEN Throw(Err("Error", <<"CR", "Cab", "API", "network", "error:">>
                            \o error.message))
    ELSE ReturnNull(<<"CR", "Cab", "API", "network", "error:">>
                    \o error.message)

\* lines 352-369: the catch block, which receives every error the try block
\* throws, those of lines 316, 339 and 350 included
catchBlock(error, a, fail) ==
    IF retryAllowed(a) /\ (error.name = "TypeError" \/ includesFetch(error.message))
    THEN Continue(retryDelays[a + 1],
                  <<"Network", "error,", "retrying", "in",
                    ToString(retryDelays[a + 1]) \o "ms",
                    "(attempt", ToString(a + 1) \o "/"
                                \o ToString(maxRetries) \o ")">>)
    ELSE IF fail
    THEN Throw(Err("Error", <<"CR", "Cab", "API", "network", "error:">>
                            \o error.message))
    ELSE ReturnNull(<<"CR", "Cab", "API", "network", "error.",
                      "Skipping", "comment", "and", "continuing.">>)

\* one iteration of the for loop
loopBody(r, a, fail) ==
    LET t == tryBlock(r, a, fail)
    IN  IF t.k = "throw" THEN catchBlock(t.error, a, fail) ELSE t

\* lines 372-377: the statements after the loop
afterLoop(fail) ==
    IF ~fail
    THEN ReturnNull(<<"CR", "Cab", "API", "unavailable", "after", "retries.",
                      "Skipping", "comment", "and", "continuing.">>)
    ELSE Throw(Err("Error", <<"CR", "Cab", "API", "unavailable", "after",
                              "retries">>))

(***************************************************************************)
(* selectRandomReviewer, src/src/index.js:380-401.                         *)
(*                                                                         *)
(* The seed is a sequence of characters, as core.getInput yields it.  A    *)
(* JavaScript number is [nan, v]: NaN, or the integer v.  A 32-bit value   *)
(* is an integer of -2^31 .. 2^31-1; its arithmetic is carried out on the  *)
(* two 16-bit halves of its two's complement representation.               *)
(***************************************************************************)
NaN == [nan |-> TRUE, v |-> 0]
Integer(v) == [nan |-> FALSE, v |-> v]

\* what reviewers[i] yields outside the list
Undefined == [t |-> "undefined", gk |-> "", v |-> ""]

DigitChars == <<"0", "1", "2", "3", "4", "5", "6", "7", "8", "9">>
IsDigit(c) == \E d \in 1..10 : DigitChars[d] = c
DigitValue(c) == (CHOOSE d \in 1..10 : DigitChars[d] = c) - 1

\* the digits of s from position i on, accumulated in base 10
RECURSIVE parseDigits(_, _, _)
parseDigits(s, i, acc) ==
    IF i > Len(s) \/ ~IsDigit(s[i]) THEN acc
    ELSE parseDigits(s, i + 1, acc * 10 + DigitValue(s[i]))

\* parseInt(s, 10): leading white space, an optional sign, then the digits
parseInt(s) ==
    LET t == trimStart(s)
        signed == t # <<>> /\ t[1] \in {"-", "+"}
        start == IF signed THEN 2 ELSE 1
    IN  IF start > Len(t) \/ ~IsDigit(t[start]) THEN NaN
        ELSE LET m == parseDigits(t, start, 0)
             IN  Integer(IF t[1] = "-" THEN 0 - m ELSE m)

\* the decimal digits of a natural number
RECURSIVE decimal(_)
decimal(m) ==
    IF m < 10 THEN <<DigitChars[m + 1]>>
    ELSE Append(decimal(m \div 10), DigitChars[(m % 10) + 1])

\* String(n)
String(n) ==
    IF n.nan THEN <<"N", "a", "N">>
    ELSE IF n.v < 0 THEN <<"-">> \o decimal(0 - n.v)
    ELSE decimal(n.v)

\* seedStr.charCodeAt(i), for the characters String(n) is made of
charCodeAt(c) ==
    CASE IsDigit(c) -> 48 + DigitValue(c)
      [] c = "-" -> 45
      [] c = "N" -> 78
      [] c = "a" -> 97

\* the two 16-bit halves of the 32-bit value h
Halves(h) ==
    IF h >= 0 THEN [hi |-> h \div 65536, lo |-> h % 65536]
    ELSE LET r == (h + 2147483647) + 1
         IN  [hi |-> 32768 + (r \div 65536), lo |-> r % 65536]

\* the 32-bit value of two halves
FromHalves(hi, lo) ==
    IF hi >= 32768 THEN (hi - 65536) * 65536 + lo ELSE hi * 65536 + lo

\* hash << 5
shiftLeft5(h) ==
    LET u == Halves(h)
        l == 32 * u.lo
    IN  FromHalves((32 * u.hi + (l \div 65536)) % 65536, l % 65536)

\* lines 395-396: ((hash << 5) - hash) + c, then hash & hash (ToInt32)
hashStep(h, c) ==
    LET a == Halves(shiftLeft5(h))
        b == Halves(h)
        lo == (a.lo - b.lo) + c + 65536
        hi == (a.hi - b.hi) + 65535 + (lo \div 65536)
    IN  FromHalves(hi % 65536, lo % 65536)

\* line 392, with the local variable left over from the invocation before
hashStartStale == hash

\* line 392: let hash = 0
hashStart == 0

\* lines 394-397: the for loop over seedStr, from position i on
RECURSIVE hashFrom(_, _, _)
hashFrom(h, seedStr, i) ==
    IF i > Len(seedStr) THEN h
    ELSE hashFrom(hashStep(h, charCodeAt(seedStr[i])), seedStr, i + 1)

\* the pull-request number whether or not a seed is supplied
randomSeedPrNumber(s, n) == Integer(n)

\* line 389: seed ? parseInt(seed, 10) : prNumber
randomSeed(s, n) == IF s # <<>> THEN parseInt(s) ELSE Integer(n)

\* hash % reviewers.length without Math.abs: the sign follows the hash
indexSigned(h, n) ==
    IF n = 0 THEN 0 - 1
    ELSE IF h >= 0 THEN h % n
    ELSE 0 - ((((0 - (h + 1)) % n) + 1) % n)

\* line 399: Math.abs(hash) % reviewers.length; -1 stands for NaN (n = 0)
index(h, n) ==
    IF n = 0 THEN 0 - 1
    ELSE IF h >= 0 THEN h % n
    ELSE (((0 - (h + 1)) % n) + 1) % n

\* reviewers[i]
elemAt(reviewers, i) ==
    IF i >= 0 /\ i < Len(reviewers) THEN reviewers[i + 1] ELSE Undefined

\* an emptiness test that never fires
isEmptyNever(reviewers) == FALSE

\* line 381: reviewers.length === 0
isEmpty(reviewers) == Len(reviewers) = 0

\* reviewers[1] of a list of one entry
onlyEntryNext(reviewers) == elemAt(reviewers, 1)

\* line 385: reviewers[0]
onlyEntry(reviewers) == elemAt(reviewers, 0)

\* what an invocation yields: a returned value or a raised error, and the
\* local hash as it leaves it
Selection(k, value, error, h) ==
    [k |-> k, value |-> value, error |-> error, hash |-> h]

selectRandomReviewer(reviewers, s, n) ==
    IF isEmpty(reviewers)
    THEN Selection("throw", Undefined,
                   Err("Error", <<"No", "reviewers", "provided">>), hash)
    ELSE IF Len(reviewers) = 1
    THEN Selection("return", onlyEntry(reviewers), NoError, hash)
    ELSE LET h == hashFrom(hashStart, String(randomSeed(s, n)), 1)
         IN  Selection("return", elemAt(reviewers, index(h, Len(reviewers))),
                       NoError, h)

\* the record of one invocation
Call(reviewers, s, n, r) ==
    [reviewers |-> reviewers, seed |-> s, prNumber |-> n,
     k |-> r.k, value |-> r.value, error |-> r.error]

NoCall ==
    [reviewers |-> <<>>, seed |-> <<>>, prNumber |-> 0,
     k |-> "none", value |-> Undefined, error |-> NoError]

SameInputs(c, d) ==
    /\ c.reviewers = d.reviewers
    /\ c.seed = d.seed
    /\ c.prNumber = d.prNumber

SelectIdle ==
    /\ hash = 0
    /\ remembered = NoCall
    /\ latest = NoCall
    /\ between = FALSE

(***************************************************************************)
(* run, src/src/index.js:166-250.                                          *)
(*                                                                         *)
(* Messages of core.warning and core.setFailed are sequences of words, as  *)
(* the messages of the fetcher are; a message of core.info is its template *)
(* with the interpolated values.                                           *)
(***************************************************************************)
Msg(text, args) == [text |-> text, args |-> args]

\* the characters of the identities that occur as author or candidate
Spelling(w) ==
    CASE w = "alice" -> <<"a", "l", "i", "c", "e">>
      [] w = "Alice" -> <<"A", "l", "i", "c", "e">>
      [] w = "bob" -> <<"b", "o", "b">>
      [] w = "BOB" -> <<"B", "O", "B">>
      [] w = "carol" -> <<"c", "a", "r", "o", "l">>
      [] w = "dave" -> <<"d", "a", "v", "e">>
      [] w = "erin" -> <<"e", "r", "i", "n">>
      [] w = "" -> <<>>

\* a comparison of the identities as they are written
sameLoginExact(a, b) == a = b

\* line 219: reviewer.toLowerCase() and prAuthor.toLowerCase() agree
sameLogin(a, b) == toLowerCase(Spelling(a)) = toLowerCase(Spelling(b))

\* line 219 raises a TypeError on an entry that has no toLowerCase
filterThrows(list) == \E i \in 1..Len(list) : list[i].t # "string"

\* the fetched list as it is, the author included
eligibleReviewersUnfiltered(list, author) == list

\* lines 218-220: availableReviewers.filter(...)
eligibleReviewers(list, author) ==
    SelectSeq(list, LAMBDA e : ~sameLogin(e.v, author))

\* line 231: core.getInput('token') || process.env.GITHUB_TOKEN
token == IF tokenInput # "" THEN tokenInput ELSE envToken

\* a catch that swallows the error of fetchReviewers in either mode
fetchCatchSwallow(fail) == "warn"

\* lines 201-209: the catch around the call of fetchReviewers
fetchCatch(fail) == IF fail THEN "rethrow" ELSE "warn"

\* line 210: !availableReviewers || availableReviewers.length === 0
noReviewers(out, list) == out = "null" \/ Len(list) = 0

\* a test of the eligible list that never fires
noneEligibleNever(list) == FALSE

\* line 222: eligibleReviewers.length === 0
noneEligible(list) == Len(list) = 0

\* lines 238-244: the call of octokit.rest.pulls.requestReviewers
ReviewRequest(t, n, reviewer) ==
    [token |-> t, pull_number |-> n, reviewers |-> <<reviewer>>]

\* what the part of run after the fetch does: it ends the run ("end") or
\* issues the request-review call ("request")
RunStep(k, is, w, f, c, h, st, rq) ==
    [k |-> k, infos |-> is, warning |-> w, failure |-> f, call |-> c,
     hash |-> h, stages |-> st, request |-> rq]

NoRequest == ReviewRequest("", 0, Undefined)

\* lines 200-244, from the return of fetchReviewers to the request-review call
afterFetch ==
    IF outcome = "throw"
    THEN IF fetchCatch(failOnApiError) = "rethrow"
         THEN RunStep("end", <<>>, <<>>, thrown.message, NoCall, hash, <<>>,
                      NoRequest)
         ELSE RunStep("end", <<>>,
                      <<"Failed", "to", "fetch", "reviewers:">>
                          \o thrown.message,
                      <<>>, NoCall, hash, <<>>, NoRequest)
    ELSE IF noReviewers(outcome, result)
    THEN RunStep("end", <<>>,
                 <<"No", "reviewers", "available", "for", urgency>>, <<>>,
                 NoCall, hash, <<>>, NoRequest)
    ELSE LET found == Msg("Found {0} available reviewers", <<Len(result)>>)
         IN
         IF filterThrows(result)
         THEN RunStep("end", <<found>>, <<>>,
                      <<"reviewer.toLowerCase", "is", "not", "a", "function">>,
                      NoCall, hash, <<>>, NoRequest)
         ELSE
         LET eligible == eligibleReviewers(result, prAuthor)
         IN
         IF noneEligible(eligible)
         THEN RunStep("end", <<found>>,
                      <<"No", "eligible", "reviewers", "(all", "are", "the",
                        "PR", "author)">>,
                      <<>>, NoCall, hash, <<>>, NoRequest)
         ELSE
         LET r == selectRandomReviewer(eligible, seed, prNumber)
             c == Call(eligible, seed, prNumber, r)
             selected == Msg("Selected reviewer: @{0}", <<r.value.v>>)
         IN
         IF r.k = "throw"
         THEN RunStep("end", <<found>>, <<>>, r.error.message, c, r.hash,
                      <<"select">>, NoRequest)
         ELSE IF token = ""
         THEN RunStep("end", <<found, selected>>, <<>>,
                      <<"GitHub", "token", "is", "required">>, c, r.hash,
                      <<"select">>, NoRequest)
         ELSE RunStep("request", <<found, selected>>, <<>>, <<>>, c, r.hash,
                      <<"select", "request">>,
                      ReviewRequest(token, prNumber, r.value))

RunIdle ==
    /\ rpc = "idle"
    /\ eventName = ""
    /\ prNumber = 0
    /\ prAuthor = ""
    /\ seed = <<>>
    /\ tokenInput = ""
    /\ envToken = ""
    /\ stages = <<>>
    /\ reviewRequests = <<>>
    /\ runInfos = <<>>
    /\ runWarnings = <<>>
    /\ failed = <<>>

(***************************************************************************)
(* The classifier as a state machine: one call of detectUrgency.           *)
(***************************************************************************)
Tiers == {"p0", "p1", "p2"}

FetchIdle ==
    /\ apiKey = ""
    /\ failOnApiError = FALSE
    /\ fpc = "idle"
    /\ attempt = 0
    /\ calls = 0
    /\ requests = <<>>
    /\ inflight = 0
    /\ received = <<>>
    /\ delays = <<>>
    /\ infos = <<>>
    /\ warnings = <<>>
    /\ outcome = "pending"
    /\ result = <<>>
    /\ thrown = NoError

InitUrgency ==
    /\ prBody \in Descriptions
    /\ checkbox \in LabelConfigs
    /\ urgency = "none"
    /\ FetchIdle
    /\ SelectIdle
    /\ RunIdle

DetectUrgency ==
    /\ fpc = "idle"
    /\ urgency = "none"
    /\ urgency' = detectUrgency(prBody, checkbox.p0, checkbox.p1, checkbox.p2)
    /\ UNCHANGED <<prBody, checkbox>>
    /\ UNCHANGED fetchVars
    /\ UNCHANGED <<selectVars, runVars>>

NextUrgency == DetectUrgency

SpecUrgency == InitUrgency /\ [][NextUrgency]_vars

(***************************************************************************)
(* The classifier run on the descriptions assembled from a few lines of    *)
(* the pool, one of each kind: for relations between the results of        *)
(* several descriptions.                                                   *)
(***************************************************************************)
ReorderLines ==
    { <<>>,
      <<"-", " ", "[", "x", "]", " ", "P", "0">>,
      <<"*", " ", "[", "X", "]", " ", "p", "1">>,
      <<"-", "[", "x", "]", " ", "P", "2">>,
      <<"-", " ", "[", "x", "]", " ", "P", "1", " ", "P", "2">> }

ReorderDescriptions ==
    {joinLines(ls) : ls \in UNION {[1..k -> ReorderLines] : k \in 0..MaxLines}}

InitReorder ==
    /\ prBody \in ReorderDescriptions
    /\ checkbox \in LabelConfigs
    /\ urgency = "none"
    /\ FetchIdle
    /\ SelectIdle
    /\ RunIdle

SpecReorder == InitReorder /\ [][NextUrgency]_vars

(***************************************************************************)
(* The fetcher as a state machine: one invocation of fetchReviewers.  The  *)
(* two awaits of the loop, of fetch() and of the timer, are the points     *)
(* where the invocation is suspended.                                      *)
(***************************************************************************)
InitFetch ==
    /\ prBody = <<>>
    /\ checkbox \in {c \in LabelConfigs : c.p0 = <<"P", "0">>}
    /\ urgency \in Tiers
    /\ apiKey \in ApiKeys
    /\ failOnApiError \in BOOLEAN
    /\ fpc = "call"
    /\ attempt = 0
    /\ calls = 0
    /\ requests = <<>>
    /\ inflight = 0
    /\ received = <<>>
    /\ delays = <<>>
    /\ infos = <<>>
    /\ warnings = <<>>
    /\ outcome = "pending"
    /\ result = <<>>
    /\ thrown = NoError
    /\ SelectIdle
    /\ RunIdle

\* the step s ends the invocation, or suspends it on the timer
Finish(s) ==
    /\ infos' = IF s.info = <<>> THEN infos ELSE Append(infos, s.info)
    /\ warnings' = IF s.warning = <<>> THEN warnings
                   ELSE Append(warnings, s.warning)
    /\ IF s.k = "continue"
       THEN /\ fpc' = "sleep"
            /\ delays' = Append(delays, s.delay)
            /\ UNCHANGED <<outcome, result, thrown>>
       ELSE /\ fpc' = "done"
            /\ outcome' = s.k
            /\ result' = s.list
            /\ thrown' = s.error
            /\ UNCHANGED delays

\* lines 287 and 293-299: the request handed to fetch()
Request(key, tier) ==
    [url |-> <<"https://cr-cab.com/api/reviewers/available?severity=", tier>>,
     method |-> "GET",
     authorization |-> <<"Bearer", key>>,
     contentType |-> "application/json",
     body |-> <<>>]

\* line 293: fetch(apiUrl, ...) is called
IssueRequest ==
    /\ fpc = "call"
    /\ fpc' = "await"
    /\ calls' = calls + 1
    /\ requests' = Append(requests, Request(apiKey, urgency))
    /\ inflight' = inflight + 1
    /\ UNCHANGED <<apiKey, failOnApiError, attempt, received, delays, infos,
                   warnings, outcome, result, thrown>>
    /\ UNCHANGED urgencyVars
    /\ UNCHANGED <<selectVars, runVars>>

\* the call of fetch() completes with r and the rest of the loop body runs
Complete(answers) ==
    /\ fpc = "await"
    /\ \E r \in answers :
          /\ received' = Append(received, r)
          /\ Finish(loopBody(r, attempt, failOnApiError))
    /\ inflight' = inflight - 1
    /\ UNCHANGED <<apiKey, failOnApiError, attempt, calls, requests>>
    /\ UNCHANGED urgencyVars
    /\ UNCHANGED <<selectVars, runVars>>

CompleteRequest == Complete(FetchResults)

\* a loop that leaves one attempt of the budget unused
loopTestStrict(a) == a < maxRetries

\* line 291: attempt <= maxRetries
loopTest(a) == a <= maxRetries

\* the timer of line 310 or 357 fires: continue, attempt++, loop test
WakeUp ==
    /\ fpc = "sleep"
    /\ attempt' = attempt + 1
    /\ IF loopTest(attempt + 1)
       THEN /\ fpc' = "call"
            /\ UNCHANGED <<delays, infos, warnings, outcome, result, thrown>>
       ELSE Finish(afterLoop(failOnApiError))
    /\ UNCHANGED <<apiKey, failOnApiError, calls, requests, inflight, received>>
    /\ UNCHANGED urgencyVars
    /\ UNCHANGED <<selectVars, runVars>>

NextFetch == IssueRequest \/ CompleteRequest \/ WakeUp

SpecFetch == InitFetch /\ [][NextFetch]_vars

\* every call of fetch() settles and every timer fires
FairFetch ==
    /\ WF_vars(IssueRequest)
    /\ WF_vars(CompleteRequest)
    /\ WF_vars(WakeUp)

SpecFetchFair == SpecFetch /\ FairFetch

(***************************************************************************)
(* The selector as a state machine: invocations of selectRandomReviewer,   *)
(* one after the other.  Of the invocations made, one earlier invocation   *)
(* and the most recent one are kept.                                       *)
(***************************************************************************)
CandidateLists ==
    { <<>>,
      <<Str("alice")>>,
      <<Str("alice"), Str("bob")>>,
      <<Str("alice"), Str("bob"), Str("carol")>> }

\* values of the input seed
Seeds ==
    { <<>>,
      <<"4", "2">>,
      <<"-", "5">>,
      <<"m", "y", "-", "s", "t", "a", "b", "l", "e", "-", "s", "e", "e", "d">>,
      <<"1", "2", "3", "4", "5", "6", "7", "8", "9">>,
      <<"5", "3", "9", "0", "1", "9", "9", "2", "6">> }   \* hashes to -2^31

PrNumbers == {7, 42}

InitSelect ==
    /\ prBody = <<>>
    /\ checkbox \in {c \in LabelConfigs : c.p0 = <<"P", "0">>}
    /\ urgency = "none"
    /\ FetchIdle
    /\ SelectIdle
    /\ RunIdle

\* one invocation, from the call to the return or the raise
Invoke(reviewers, s, n) ==
    LET r == selectRandomReviewer(reviewers, s, n)
        c == Call(reviewers, s, n, r)
    IN  /\ hash' = r.hash
        /\ latest' = c
        /\ \/ /\ remembered' = remembered
              /\ between' = (between \/ (remembered.k # "none"
                                         /\ ~SameInputs(remembered, c)))
           \/ /\ remembered.k = "none"
              /\ remembered' = c
              /\ between' = FALSE

SelectRandomReviewer ==
    /\ rpc = "idle"
    /\ \E reviewers \in CandidateLists, s \in Seeds, n \in PrNumbers :
          Invoke(reviewers, s, n)
    /\ UNCHANGED <<urgencyVars, fetchVars, runVars>>

NextSelect == SelectRandomReviewer

SpecSelect == InitSelect /\ [][NextSelect]_vars

(***************************************************************************)
(* One run of the action.  The inputs, the environment and the event       *)
(* payload are fixed when the run starts; the run is suspended at the      *)
(* awaits of fetchReviewers and at the await of the request-review call.   *)
(* A null description is replaced by '' on line 187 and a label that is    *)
(* not supplied by its default on lines 172-174: prBody and checkbox hold  *)
(* the values after the replacement.                                       *)
(***************************************************************************)
RunDescriptions ==
    { <<>>,
      <<"-", " ", "[", "x", "]", " ", "P", "0">>,
      joinLines(<< <<"f", "i", "x">>,
                   <<"*", " ", "[", "X", "]", " ", "P", "1">> >>) }

Authors == {"alice", "Alice", "erin"}

RunSeeds == {s \in Seeds : Len(s) \in {0, 2}}

\* the input token and the variable GITHUB_TOKEN of the environment
TokenSources ==
    { [input |-> "", env |-> ""],
      [input |-> "ghp-input", env |-> ""],
      [input |-> "", env |-> "ghs-env"] }

\* what the service answers during a run
RunFetchResults ==
    { Http(200, <<"OK">>, Body("array", "undefined",
                               <<Str("alice"), Str("bob")>>)),
      Http(200, <<"OK">>, Body("object", "array",
                               <<Obj("string", "alice"),
                                 Obj("string", "bob"),
                                 Obj("string", "carol")>>)),
      Http(200, <<"OK">>, Body("array", "undefined", <<Str("alice")>>)),
      Http(200, <<"OK">>, Body("array", "undefined", <<>>)),
      Http(200, <<"OK">>, Body("object", "array", <<Obj("number", "7")>>)),
      Http(200, <<"OK">>, Body("number", "undefined", <<>>)),
      Http(500, <<"Internal", "Server", "Error">>, NoBody),
      Http(404, <<"Not", "Found">>, NoBody),
      Rejection("TypeError", <<"fetch", "failed">>) }

InitRun ==
    /\ prBody \in RunDescriptions
    /\ checkbox \in {c \in LabelConfigs : c.p0 = <<"P", "0">>}
    /\ urgency = "none"
    /\ apiKey \in {"", "test-api-key"}
    /\ failOnApiError \in BOOLEAN
    /\ fpc = "idle"
    /\ attempt = 0
    /\ calls = 0
    /\ requests = <<>>
    /\ inflight = 0
    /\ received = <<>>
    /\ delays = <<>>
    /\ infos = <<>>
    /\ warnings = <<>>
    /\ outcome = "pending"
    /\ result = <<>>
    /\ thrown = NoError
    /\ SelectIdle
    /\ rpc = "start"
    /\ eventName \in {"pull_request", "push"}
    /\ prNumber \in PrNumbers
    /\ prAuthor \in Authors
    /\ seed \in RunSeeds
    /\ \E t \in TokenSources : tokenInput = t.input /\ envToken = t.env
    /\ stages = <<>>
    /\ reviewRequests = <<>>
    /\ runInfos = <<>>
    /\ runWarnings = <<>>
    /\ failed = <<>>

\* lines 167-198: from the entry of run to the call of fetchReviewers
RunStart ==
    /\ rpc = "start"
    /\ IF apiKey = ""
       THEN \* getInput(..., { required: true }) raises; line 247 catches
            /\ rpc' = "end"
            /\ failed' = Append(failed, <<"Input", "required", "and", "not",
                                          "supplied:", "cr_cab_api_key">>)
            /\ UNCHANGED <<urgency, fpc, stages, runInfos>>
       ELSE IF eventName # "pull_request"
       THEN /\ rpc' = "end"
            /\ failed' = Append(failed, <<"This", "action", "only", "works",
                                          "on", "pull_request", "events">>)
            /\ UNCHANGED <<urgency, fpc, stages, runInfos>>
       ELSE LET u == detectUrgency(prBody, checkbox.p0, checkbox.p1,
                                   checkbox.p2)
            IN  /\ urgency' = u
                /\ runInfos' = runInfos
                       \o << Msg("Processing PR #{0} by @{1}",
                                 <<prNumber, prAuthor>>),
                             Msg("Detected urgency: {0}", <<u>>) >>
                /\ stages' = stages \o <<"classify", "fetch">>
                /\ fpc' = "call"
                /\ rpc' = "fetch"
                /\ UNCHANGED failed
    /\ UNCHANGED <<prBody, checkbox>>
    /\ UNCHANGED <<apiKey, failOnApiError, attempt, calls, requests, inflight,
                   received, delays, infos, warnings, outcome, result, thrown>>
    /\ UNCHANGED selectVars
    /\ UNCHANGED <<eventName, prNumber, prAuthor, seed, tokenInput, envToken,
                   reviewRequests, runWarnings>>

\* the call of fetch() completes during a run
CompleteRunRequest == Complete(RunFetchResults)

\* lines 200-244: fetchReviewers has returned or raised
RunAfterFetch ==
    /\ rpc = "fetch"
    /\ fpc = "done"
    /\ LET s == afterFetch
       IN  /\ rpc' = s.k
           /\ runInfos' = runInfos \o s.infos
           /\ runWarnings' = IF s.warning = <<>> THEN runWarnings
                             ELSE Append(runWarnings, s.warning)
           /\ failed' = IF s.failure = <<>> THEN failed
                        ELSE Append(failed, s.failure)
           /\ stages' = stages \o s.stages
           /\ hash' = s.hash
           /\ latest' = IF s.call.k = "none" THEN latest ELSE s.call
           /\ reviewRequests' = IF s.k = "request"
                                THEN Append(reviewRequests, s.request)
                                ELSE reviewRequests
    /\ UNCHANGED <<urgencyVars, fetchVars, remembered, between>>
    /\ UNCHANGED <<eventName, prNumber, prAuthor, seed, tokenInput, envToken>>

\* lines 239-246: the request-review call resolves, or rejects into line 247
RequestCompletes ==
    /\ rpc = "request"
    /\ rpc' = "end"
    /\ \/ /\ runInfos' = Append(runInfos,
                 Msg("Successfully requested review from @{0}",
                     <<reviewRequests[Len(reviewRequests)].reviewers[1].v>>))
          /\ UNCHANGED failed
       \/ /\ failed' = Append(failed, <<"Reviews", "may", "only", "be",
                                        "requested", "from", "collaborators">>)
          /\ UNCHANGED runInfos
    /\ UNCHANGED <<urgencyVars, fetchVars, selectVars>>
    /\ UNCHANGED <<eventName, prNumber, prAuthor, seed, tokenInput, envToken,
                   stages, reviewRequests, runWarnings>>

NextRun ==
    \/ RunStart
    \/ IssueRequest
    \/ CompleteRunRequest
    \/ WakeUp
    \/ RunAfterFetch
    \/ RequestCompletes

SpecRun == InitRun /\ [][NextRun]_vars

(***************************************************************************)
(* Vocabulary of the classifier's specification (spec.md section 4.1).     *)
(***************************************************************************)
\* a candidate marker line: after trimming, the line begins with a bullet
\* followed by a checked box
IsCheckedMarker(line) ==
    LET t == trim(line) IN t # <<>> /\ CheckboxAt(t, 1)

\* the tiers whose label occurs in the line, whatever the letter case
LabelsIn(line, c) ==
    {t \in Tiers : includes(toLowerCase(line), toLowerCase(c[t]))}

bodyLines == splitLines(prBody)

\* the positions of the checked marker lines that carry a label
MarkerPositions ==
    {i \in 1..Len(bodyLines) :
        IsCheckedMarker(bodyLines[i]) /\ LabelsIn(bodyLines[i], checkbox) # {}}

\* the tiers whose label occurs in some checked marker line
MarkedTiers == UNION {LabelsIn(bodyLines[i], checkbox) : i \in MarkerPositions}

Highest(ts) ==
    IF "p0" \in ts THEN "p0" ELSE IF "p1" \in ts THEN "p1" ELSE "p2"

\* the description without its i-th line
WithoutLine(i) ==
    joinLines([j \in 1..(Len(bodyLines) - 1) |->
                  IF j < i THEN bodyLines[j] ELSE bodyLines[j + 1]])

\* a line shows a checked urgency checkbox in the sense of the README: a
\* bullet, a checked box and a label stand somewhere in it
ShowsCheckedUrgency(line) ==
    /\ \E i \in 1..Len(line) : CheckboxAt(line, i)
    /\ LabelsIn(line, checkbox) # {}

(***************************************************************************)
(* Claims about detectUrgency, checked under SpecUrgency.                  *)
(***************************************************************************)
\* C1: for a description in which no checked marker line contains any of the
\* three labels, detectUrgency returns p1.
C1_NoMarkerGivesP1 ==
    (urgency # "none" /\ MarkerPositions = {}) => urgency = "p1"

\* C2: for a description with exactly one checked marker line carrying a
\* label, and that line containing exactly one of the three labels,
\* detectUrgency returns the tier of that label.
C2_SingleMarkerGivesItsTier ==
    (/\ urgency # "none"
     /\ Cardinality(MarkerPositions) = 1
     /\ Cardinality(MarkedTiers) = 1)
    => urgency \in MarkedTiers

\* C3: for a description with several checked marker lines, or one checked
\* marker line containing several labels, detectUrgency returns the highest
\* tier among the tiers whose label occurs in some checked marker line.
C3_HighestMarkedTier ==
    (/\ urgency # "none"
     /\ MarkedTiers # {}
     /\ \/ Cardinality({i \in 1..Len(bodyLines) :
                            IsCheckedMarker(bodyLines[i])}) >= 2
        \/ \E i \in MarkerPositions :
              Cardinality(LabelsIn(bodyLines[i], checkbox)) >= 2)
    => urgency = Highest(MarkedTiers)

\* C4: a line that is no checked marker line never influences detectUrgency:
\* the description without that line is classified as the description is.
C4_OtherLinesIgnored ==
    urgency # "none" =>
        \A i \in 1..Len(bodyLines) :
            ~IsCheckedMarker(bodyLines[i]) =>
                detectUrgency(WithoutLine(i), checkbox.p0, checkbox.p1,
                              checkbox.p2) = urgency

IsResponse(r) == r.type = "response"
Is5xxResponse(r) == IsResponse(r) /\ r.status >= 500
Is4xxResponse(r) == IsResponse(r) /\ r.status >= 400 /\ r.status < 500
IsSuccess(r) == IsResponse(r) /\ r.status = 200

\* the body is a bare sequence, or a record whose reviewers is a sequence
IsSequenceShape(b) ==
    b.kind = "array" \/ (b.kind = "object" /\ b.reviewers = "array")

\* a plain identity string
IsPlainString(e) == e.t = "string"

\* an entry the specification accepts: a string, or a record with a
\* githubUsername that is a non-empty string
IsWellFormedEntry(e) ==
    e.t = "string" \/ (e.t = "object" /\ e.gk = "string" /\ e.v # "")

\* an entry that is neither a string nor a record with githubUsername
IsMalformedEntry(e) ==
    e.t # "string" /\ ~(e.t = "object" /\ e.gk # "undefined")

IsWellFormed(b) ==
    IsSequenceShape(b) /\ \A i \in 1..Len(b.items) : IsWellFormedEntry(b.items[i])

IsMalformed(b) ==
    \/ b.kind \in {"object", "number", "null"} /\ ~IsSequenceShape(b)
    \/ IsSequenceShape(b) /\ \E i \in 1..Len(b.items) : IsMalformedEntry(b.items[i])

\* the normalized payload: each entry as a plain identity string
Normalized(items) == [i \in 1..Len(items) |-> Str(items[i].v)]

\* the same sequence carried in the other of the two accepted shapes
OtherShape(b) ==
    IF b.kind = "array" THEN Body("object", "array", b.items)
    ELSE Body("array", "undefined", b.items)

\* the message names the status code followed by the status text
CarriesStatus(message, r) ==
    includes(message, <<ToString(r.status)>> \o r.statusText)

(***************************************************************************)
(* Claims about fetchReviewers, checked under SpecFetch.                   *)
(***************************************************************************)
\* C6: when the first response is a success whose body carries a sequence S
\* of plain strings, bare or as the reviewers of a record, fetchReviewers
\* returns S after one network call, and the same list as for the other shape.
C6_BothShapesSameList ==
    (/\ Len(received) >= 1
     /\ IsSuccess(received[1])
     /\ IsSequenceShape(received[1].body)
     /\ \A i \in 1..Len(received[1].body.items) :
           IsPlainString(received[1].body.items[i]))
    => /\ fpc = "done"
       /\ outcome = "list"
       /\ result = received[1].body.items
       /\ calls = 1
       /\ LET other == loopBody(Http(200, <<"OK">>, OtherShape(received[1].body)),
                                0, failOnApiError)
          IN  other.k = "list" /\ other.list = result

\* C6 witness: a record carrying two plain strings has been returned as list
C6_Witness ==
    /\ fpc = "done"
    /\ outcome = "list"
    /\ Len(received) = 1
    /\ received[1].body.kind = "object"
    /\ Len(result) = 2
    /\ \A i \in 1..2 : IsPlainString(received[1].body.items[i])

\* C7: for k in {0,1,2}, k consecutive 5xx responses are each followed by a
\* further attempt, and when a well-formed success response follows them
\* fetchReviewers returns its normalized payload after exactly k+1 network
\* calls, for either value of failOnApiError, without any warning.
C7_RetryThenSuccess ==
    \A k \in 0..2 :
        (/\ Len(received) >= k
         /\ \A i \in 1..k : Is5xxResponse(received[i]))
        => /\ Len(received) = k => fpc \in {"call", "await", "sleep"}
           /\ (/\ Len(received) > k
               /\ IsSuccess(received[k + 1])
               /\ IsWellFormed(received[k + 1].body))
              => /\ fpc = "done"
                 /\ outcome = "list"
                 /\ result = Normalized(received[k + 1].body.items)
                 /\ calls = k + 1
                 /\ warnings = <<>>

\* C7 witness: two 5xx responses, then a success with a record entry
C7_Witness ==
    /\ fpc = "done"
    /\ outcome = "list"
    /\ calls = 3
    /\ Is5xxResponse(received[1])
    /\ Is5xxResponse(received[2])
    /\ failOnApiError
    /\ \E i \in 1..Len(result) : received[3].body.items[i].t = "object"

\* C8: when three consecutive attempts each receive a status >= 500, the
\* invocation ends after exactly 3 network calls: with failOnApiError false
\* it returns null and has emitted a warning, with failOnApiError true it
\* raises an error carrying the status code and status text of the response.
C8_ExhaustedRetries ==
    (/\ Len(received) = 3
     /\ \A i \in 1..3 : Is5xxResponse(received[i]))
    => /\ fpc = "done"
       /\ calls = 3
       /\ ~failOnApiError => (outcome = "null" /\ Len(warnings) = 1)
       /\ failOnApiError =>
             (outcome = "throw" /\ CarriesStatus(thrown.message, received[3]))

\* C8 witness: three 5xx responses in strict mode ended in a raised error
C8_Witness ==
    /\ Len(received) = 3
    /\ \A i \in 1..3 : Is5xxResponse(received[i])
    /\ failOnApiError
    /\ outcome = "throw"
    /\ delays = <<250, 750>>

\* C9: a response with status in [400, 500) never triggers a retry: the
\* invocation ends with it, with null and a warning naming the status when
\* failOnApiError is false, with a raised error carrying the status code and
\* text when it is true.
C9_NoRetryOn4xx ==
    \A i \in 1..Len(received) :
        Is4xxResponse(received[i])
        => /\ fpc = "done"
           /\ Len(received) = i
           /\ calls = i
           /\ ~failOnApiError =>
                 /\ outcome = "null"
                 /\ Len(warnings) = 1
                 /\ includes(warnings[1],
                             <<"(status=" \o ToString(received[i].status) \o ").">>)
           /\ failOnApiError =>
                 (outcome = "throw" /\ CarriesStatus(thrown.message, received[i]))

\* C10: a malformed success response always makes fetchReviewers raise a
\* format error, for both values of failOnApiError; it is never degraded to
\* a null result.
C10_MalformedAlwaysRaises ==
    \A i \in 1..Len(received) :
        (IsSuccess(received[i]) /\ IsMalformed(received[i].body))
        => /\ fpc = "done"
           /\ outcome = "throw"
           /\ includes(thrown.message, <<"Invalid">>)

IsRejection(r) == r.type = "rejection"

\* the words of the bodies of the responses received so far
ResponseBodyWords ==
    UNION {{received[i].body.items[j].v : j \in 1..Len(received[i].body.items)} :
              i \in 1..Len(received)} \ {""}

\* the diagnostics emitted so far, core.info and core.warning alike
Diagnostics ==
    {infos[i] : i \in 1..Len(infos)} \cup {warnings[i] : i \in 1..Len(warnings)}

\* the word w occurs in the message m
HasWord(m, w) == \E i \in 1..Len(m) : m[i] = w

\* C11: every transport failure of a request, whatever error the transport
\* raises, is treated like a 5xx: it is retried after 250ms, then 750ms, up
\* to 3 attempts in total; a well-formed success at a later attempt is
\* returned normalized; after 3 failed attempts fetchReviewers returns null
\* with a warning when failOnApiError is false and raises when it is true.
C11_TransportFailureRetried ==
    \A i \in 1..Len(received) :
        IsRejection(received[i])
        => /\ i < 3 => /\ ~(fpc = "done" /\ Len(received) = i)
                       /\ Len(delays) >= i
                       /\ delays[i] = retryDelays[i]
           /\ i = 3 => /\ fpc = "done"
                       /\ calls = 3
                       /\ ~failOnApiError =>
                             (outcome = "null" /\ Len(warnings) = 1)
                       /\ failOnApiError => outcome = "throw"
           /\ (/\ Len(received) > i
               /\ IsSuccess(received[i + 1])
               /\ IsWellFormed(received[i + 1].body))
              => /\ outcome = "list"
                 /\ result = Normalized(received[i + 1].body.items)

\* C12: on every path of fetchReviewers, no diagnostic it emits (info or
\* warning) contains the API key, the word Bearer or any other part of the
\* request, or a word of a response body.
C12_DiagnosticsCarryNoSecret ==
    \A m \in Diagnostics :
        /\ ~HasWord(m, apiKey)
        /\ ~HasWord(m, "Bearer")
        /\ \A i \in 1..Len(requests) :
              /\ \A j \in 1..Len(requests[i].authorization) :
                    ~HasWord(m, requests[i].authorization[j])
              /\ \A j \in 1..Len(requests[i].body) :
                    ~HasWord(m, requests[i].body[j])
        /\ \A w \in ResponseBodyWords : ~HasWord(m, w)

\* C12 witness: a lenient invocation that retried once and then received a
\* success response with an entry it rejects has emitted an info and a warning
C12_Witness ==
    /\ fpc = "done"
    /\ ~failOnApiError
    /\ Len(infos) = 1
    /\ Len(warnings) = 1
    /\ Len(received) = 2
    /\ IsSuccess(received[2])
    /\ Len(received[2].body.items) = 2
    /\ received[2].body.items[2] = Obj("undefined", "dave")
    /\ Len(requests) = 2
    /\ requests[2].authorization = <<"Bearer", apiKey>>

\* C20: in every invocation of fetchReviewers at most 3 network calls are
\* made; the wait before the 2nd call is exactly 250ms and before the 3rd
\* exactly 750ms; no wait follows the terminal attempt; and a call is issued
\* only after the previous one has completed.
C20_BoundedSequentialRetries ==
    /\ calls <= 3
    /\ Len(requests) = calls
    /\ inflight \in {0, 1}
    /\ inflight = calls - Len(received)
    /\ fpc = "await" <=> inflight = 1
    /\ Len(delays) <= 2
    /\ \A i \in 1..Len(delays) : delays[i] = IF i = 1 THEN 250 ELSE 750
    /\ fpc \in {"call", "await", "done"} => Len(delays) = calls - (IF fpc = "call" THEN 0 ELSE 1)
    /\ fpc = "sleep" => Len(delays) = calls
    /\ fpc = "done" => Len(delays) = Len(received) - 1

\* C20 witness: a 5xx response, then a transport failure, then a third call
\* that ended the invocation
C20_Witness ==
    /\ fpc = "done"
    /\ calls = 3
    /\ Is5xxResponse(received[1])
    /\ IsRejection(received[2])
    /\ delays = <<250, 750>>
    /\ inflight = 0

(***************************************************************************)
(* The selector's specification (spec.md section 4.3).                     *)
(***************************************************************************)
Invoked(c) == c.k # "none"

\* C13: two invocations of selectRandomReviewer with the same non-empty
\* candidate list, the same seed and the same pull-request number return
\* the same identity, whatever was invoked in between.
C13_SelectionDeterministic ==
    ( /\ Invoked(remembered)
      /\ Invoked(latest)
      /\ remembered.reviewers # <<>>
      /\ SameInputs(remembered, latest) )
    => /\ remembered.k = "return"
       /\ latest.k = "return"
       /\ latest.value = remembered.value

\* a list of three is selected from twice with the same inputs, the second
\* time after an invocation with other inputs
C13_Witness ==
    /\ remembered.k = "return"
    /\ latest.k = "return"
    /\ between
    /\ SameInputs(remembered, latest)
    /\ Len(latest.reviewers) = 3
    /\ latest.seed = <<>>
    /\ latest.value = latest.reviewers[2]

\* C14: for a candidate list of exactly one entry selectRandomReviewer
\* returns that entry, for every seed and every pull-request number.
C14_SingleEntryReturned ==
    (Invoked(latest) /\ Len(latest.reviewers) = 1)
    => /\ latest.k = "return"
       /\ latest.value = latest.reviewers[1]

C14_Witness ==
    /\ latest.k = "return"
    /\ Len(latest.reviewers) = 1
    /\ parseInt(latest.seed) = NaN
    /\ latest.seed # <<>>
    /\ latest.value = Str("alice")

\* C15: for an empty candidate list selectRandomReviewer raises an error
\* and returns no identity, for every seed and every pull-request number.
C15_EmptyListRaises ==
    (Invoked(latest) /\ latest.reviewers = <<>>)
    => /\ latest.k = "throw"
       /\ latest.value = Undefined
       /\ latest.error = Err("Error", <<"No", "reviewers", "provided">>)

C15_Witness ==
    /\ latest.k = "throw"
    /\ latest.reviewers = <<>>
    /\ latest.seed = <<"4", "2">>
    /\ latest.prNumber = 42

(***************************************************************************)
(* The specification of a run (spec.md sections 2, 4.3 and 5).             *)
(***************************************************************************)
\* the candidate is the pull-request author, letter case aside
IsAuthor(e) ==
    e.t = "string" /\ toLowerCase(Spelling(e.v)) = toLowerCase(Spelling(prAuthor))

\* the fetcher has returned the list result
PoolReturned == outcome = "list"

NoCandidates == outcome = "null" \/ (PoolReturned /\ result = <<>>)

AllAuthor ==
    /\ PoolReturned
    /\ result # <<>>
    /\ \A i \in 1..Len(result) : IsAuthor(result[i])

\* the three terminal outcomes of a run
ReviewRequested ==
    /\ Len(reviewRequests) = 1
    /\ runInfos # <<>>
    /\ runInfos[Len(runInfos)].text = "Successfully requested review from @{0}"
Skipped == Len(runWarnings) = 1
MarkedFailed == Len(failed) = 1

\* C16: the reviewer handed to the request-review call is a member of the
\* pool the fetcher returned and is not the pull-request author, letter
\* case aside.
C16_RequestedReviewerEligible ==
    \A i \in 1..Len(reviewRequests) :
        LET q == reviewRequests[i]
        IN  /\ Len(q.reviewers) = 1
            /\ PoolReturned
            /\ \E j \in 1..Len(result) : result[j] = q.reviewers[1]
            /\ ~IsAuthor(q.reviewers[1])

\* pool [alice, bob], author Alice: bob is requested
C16_Witness ==
    /\ result = <<Str("alice"), Str("bob")>>
    /\ prAuthor = "Alice"
    /\ Len(reviewRequests) = 1
    /\ reviewRequests[1].reviewers = <<Str("bob")>>
    /\ ReviewRequested

\* C17: when the fetcher yields null or an empty list, or every candidate
\* is the author, the run ends with one warning, without a request-review
\* call and without being marked failed; the selector is never invoked
\* with an empty list.
C17_EmptyPoolEndsQuietly ==
    /\ Invoked(latest) => latest.reviewers # <<>>
    /\ (NoCandidates \/ AllAuthor)
       => /\ reviewRequests = <<>>
          /\ failed = <<>>
          /\ ~Invoked(latest)
          /\ rpc \in {"fetch", "end"}
          /\ rpc = "end" => Skipped

\* every candidate of a non-empty pool is the author, in another letter case
C17_Witness ==
    /\ rpc = "end"
    /\ AllAuthor
    /\ prAuthor = "Alice"
    /\ runWarnings = << <<"No", "eligible", "reviewers", "(all", "are",
                         "the", "PR", "author)">> >>

\* the credential or the delivery token is not configured
MissingConfiguration == apiKey = "" \/ (tokenInput = "" /\ envToken = "")

\* C18: when the credential or the delivery token is missing, the run ends
\* at once marked failed: no classification, no fetch, no selection and no
\* request-review call is performed.
C18_MissingConfigurationFatal ==
    MissingConfiguration
    => /\ rpc \in {"start", "end"}
       /\ stages = <<>>
       /\ urgency = "none"
       /\ calls = 0
       /\ ~Invoked(latest)
       /\ reviewRequests = <<>>
       /\ rpc = "end" => (MarkedFailed /\ runWarnings = <<>>)

\* in strict mode the invocation of the fetcher ended on something other
\* than a success response with a well-formed body
StrictFetcherFailure ==
    /\ failOnApiError
    /\ fpc = "done"
    /\ LET r == received[Len(received)]
       IN  ~(IsSuccess(r) /\ IsWellFormed(r.body))

\* C19: a run ends in exactly one of the outcomes review requested,
\* skipped with a warning, marked failed; nothing is reported before the
\* end; a failure raised on the way ends the run marked failed, and in
\* strict mode a failure of the fetcher ends it marked failed with no
\* review requested.
C19_OneTerminalOutcome ==
    /\ Len(reviewRequests) <= 1 /\ Len(runWarnings) <= 1 /\ Len(failed) <= 1
    /\ rpc # "end" => (~ReviewRequested /\ ~Skipped /\ ~MarkedFailed)
    /\ rpc = "end"
       => /\ ReviewRequested \/ Skipped \/ MarkedFailed
          /\ ~(ReviewRequested /\ Skipped)
          /\ ~(ReviewRequested /\ MarkedFailed)
          /\ ~(Skipped /\ MarkedFailed)
          /\ (apiKey = "" \/ eventName # "pull_request") => MarkedFailed
          /\ (outcome = "throw" /\ failOnApiError)
             => failed = <<thrown.message>>
          /\ (PoolReturned /\ \E i \in 1..Len(result) : ~IsPlainString(result[i]))
             => MarkedFailed
    /\ StrictFetcherFailure
       => /\ reviewRequests = <<>>
          /\ rpc = "end" => (MarkedFailed /\ ~Skipped)

\* strict mode, the third 5xx in a row: marked failed with the fetcher's error
C19_Witness ==
    /\ rpc = "end"
    /\ failOnApiError
    /\ Len(received) = 3
    /\ Is5xxResponse(received[3])
    /\ outcome = "throw"
    /\ failed = <<thrown.message>>
    /\ reviewRequests = <<>>

(***************************************************************************)
(* Further claims about fetchReviewers, checked under SpecFetch.           *)
(***************************************************************************)
\* the invocation has ended without a list
EndedInFailure == fpc = "done" /\ outcome \in {"null", "throw"}

\* what the invocation reports at its end: the raised error's message, or
\* the last warning
TerminalText ==
    IF outcome = "throw" THEN thrown.message ELSE warnings[Len(warnings)]

\* the response the invocation ended on
LastReceived == received[Len(received)]

\* the text names the status, as "404 ..." or as "(status=404)."
NamesStatus(m, r) ==
    \/ HasWord(m, ToString(r.status))
    \/ HasWord(m, "(status=" \o ToString(r.status) \o ").")

\* C21: the terminal warning or raised error names its cause class: an
\* invocation that ends on an HTTP error status reports an API error with
\* that status and never a network error; one that ends on a transport
\* failure reports a network error and no status; an exhausted 5xx and a
\* 4xx are reported with different wording or status.
C21_CauseClassReported ==
    (EndedInFailure /\ Len(warnings) + Len(thrown.message) > 0)
    => /\ (Is5xxResponse(LastReceived) \/ Is4xxResponse(LastReceived))
          => /\ ~HasWord(TerminalText, "network")
             /\ NamesStatus(TerminalText, LastReceived)
             /\ HasWord(TerminalText, "error:")
                   \/ HasWord(TerminalText, "error")
                   \/ HasWord(TerminalText, "unavailable")
       /\ IsRejection(LastReceived)
          => /\ HasWord(TerminalText, "network")
             /\ \A r \in ErrorResponses : ~NamesStatus(TerminalText, r)
       /\ (Is4xxResponse(LastReceived) /\ ~failOnApiError)
          => ~HasWord(TerminalText, "unavailable")
       /\ (Is5xxResponse(LastReceived) /\ ~failOnApiError)
          => HasWord(TerminalText, "unavailable")

\* C22: once a call has received a success response, whatever its body,
\* the invocation is over: no further network call is issued.
C22_NoCallAfterSuccess ==
    \A i \in 1..Len(received) :
        IsSuccess(received[i])
        => /\ i = Len(received)
           /\ fpc = "done"
           /\ calls = i

\* an entry the specification rejects: anything but a string or a record
\* with a githubUsername that is a non-empty string
IsRejectedEntry(e) == ~IsWellFormedEntry(e)

\* C23: a returned list has the length and the order of the sequence in
\* the response and consists of plain strings, a string entry unchanged
\* and a record entry replaced by its githubUsername; a sequence with any
\* other entry yields a format error naming that entry, and no list.
C23_ListIsNormalizedSequence ==
    /\ outcome = "list"
       => LET items == LastReceived.body.items
          IN  /\ IsSuccess(LastReceived)
              /\ Len(result) = Len(items)
              /\ \A i \in 1..Len(items) :
                    /\ IsPlainString(result[i])
                    /\ result[i].v = items[i].v
                    /\ IsPlainString(items[i]) => result[i] = items[i]
    /\ ( /\ received # <<>>
         /\ IsSuccess(LastReceived)
         /\ IsSequenceShape(LastReceived.body)
         /\ \E i \in 1..Len(LastReceived.body.items) :
               IsRejectedEntry(LastReceived.body.items[i]) )
       => /\ outcome # "list"
          /\ (fpc = "done" /\ failOnApiError)
             => /\ outcome = "throw"
                /\ includes(thrown.message, <<"Invalid", "reviewer", "format:">>)

(***************************************************************************)
(* The selector's algorithm (spec.md section 4.3), stated on its own       *)
(* terms: 32-bit addition with wraparound, the fold h := h*31 + code, and  *)
(* the decimal text of the effective seed.                                 *)
(***************************************************************************)
MinInt32 == (0 - 2147483647) - 1

\* a + b with 32-bit signed wraparound
AddWrap(x, y) ==
    CHOOSE r \in
        { IF a >= 0 /\ b >= 0 /\ a > 2147483647 - b
          THEN ((a - 2147483647) + (b - 2147483647)) - 2
          ELSE IF a < 0 /\ b < 0 /\ a < MinInt32 - b
          THEN ((a + 2147483647) + (b + 2147483647)) + 2
          ELSE a + b : a \in {x}, b \in {y} } : TRUE

\* 2h with 32-bit signed wraparound
Double(h) == AddWrap(h, h)

\* h * 31 with 32-bit signed wraparound: 16h + 8h + 4h + 2h + h
Times31Wrap(h) ==
    CHOOSE r \in
        { AddWrap(Double(Double(Double(Double(v)))),
                  AddWrap(Double(Double(Double(v))),
                          AddWrap(Double(Double(v)),
                                  AddWrap(Double(v), v)))) : v \in {h} } : TRUE

\* the character codes of the characters of a decimal text
AsciiCode(c) ==
    CASE c = "-" -> 45
      [] c = "0" -> 48 [] c = "1" -> 49 [] c = "2" -> 50 [] c = "3" -> 51
      [] c = "4" -> 52 [] c = "5" -> 53 [] c = "6" -> 54 [] c = "7" -> 55
      [] c = "8" -> 56 [] c = "9" -> 57

\* the fold over the first n characters of the text
RECURSIVE SeedHash(_, _)
SeedHash(text, n) ==
    IF n = 0 THEN 0
    ELSE AddWrap(Times31Wrap(SeedHash(text, n - 1)), AsciiCode(text[n]))

\* abs(h) mod n
AbsMod(h, n) ==
    IF h = MinInt32 THEN ((2147483647 % n) + 1) % n
    ELSE IF h < 0 THEN (0 - h) % n
    ELSE h % n

\* the decimal text of a natural number, from its leading digit on
RECURSIVE PowerOfTen(_)
PowerOfTen(k) == IF k = 0 THEN 1 ELSE 10 * PowerOfTen(k - 1)
DigitCount(m) == CHOOSE k \in 1..9 : m < PowerOfTen(k) /\ (k = 1 \/ m >= PowerOfTen(k - 1))
DecimalText(m) ==
    [i \in 1..DigitCount(m) |->
        DigitChars[((m \div PowerOfTen(DigitCount(m) - i)) % 10) + 1]]

\* the seed is the decimal text of an integer: digits without a leading
\* zero, after an optional minus sign
IsDecimalText(s) ==
    LET d == IF s # <<>> /\ s[1] = "-" THEN Tail(s) ELSE s
    IN  /\ d # <<>>
        /\ \A i \in 1..Len(d) : IsDigit(d[i])
        /\ (Len(d) > 1 => d[1] # "0")
        /\ d # <<"0">> \/ s = d

\* the invocation has an effective seed that is an integer
HasEffectiveSeed(c) == c.seed = <<>> \/ IsDecimalText(c.seed)

\* the decimal text of the effective seed
EffectiveSeedText(c) ==
    IF c.seed = <<>> THEN DecimalText(c.prNumber) ELSE c.seed

\* C24: for a list of n >= 2 candidates selectRandomReviewer returns the
\* element at index abs(h) mod n, h being the 32-bit fold h := h*31 + code
\* over the decimal text of the explicit seed when one is supplied and of
\* the pull-request number otherwise; with an explicit seed the result
\* does not depend on the pull-request number.
C24_IndexIsSeedHash ==
    /\ ( /\ Invoked(latest)
         /\ Len(latest.reviewers) >= 2
         /\ HasEffectiveSeed(latest) )
       => LET text == EffectiveSeedText(latest)
              h == SeedHash(text, Len(text))
              n == Len(latest.reviewers)
          IN  /\ latest.k = "return"
              /\ hash = h
              /\ latest.value = latest.reviewers[AbsMod(h, n) + 1]
    /\ ( /\ Invoked(remembered)
         /\ Invoked(latest)
         /\ Len(latest.reviewers) >= 2
         /\ latest.reviewers = remembered.reviewers
         /\ latest.seed = remembered.seed
         /\ latest.seed # <<>> )
       => latest.value = remembered.value

\* a seed whose fold wraps around selects from three candidates, after the
\* same seed did so under another pull-request number
C24_Witness ==
    /\ latest.k = "return"
    /\ Len(latest.reviewers) = 3
    /\ latest.seed = <<"1", "2", "3", "4", "5", "6", "7", "8", "9">>
    /\ hash < 0
    /\ latest.value = latest.reviewers[1]
    /\ remembered.seed = latest.seed
    /\ remembered.reviewers = latest.reviewers
    /\ remembered.prNumber # latest.prNumber

\* C25: for every non-empty candidate list, every seed and every
\* pull-request number the index lies in [0, length) and the returned
\* value is an element of the list, also when the hash is negative or
\* equals -2^31.
C25_IndexInRange ==
    (Invoked(latest) /\ latest.reviewers # <<>>)
    => /\ latest.k = "return"
       /\ \E i \in 1..Len(latest.reviewers) :
              latest.value = latest.reviewers[i]
       /\ Len(latest.reviewers) >= 2
          => LET i == index(hash, Len(latest.reviewers))
             IN  /\ i >= 0
                 /\ i < Len(latest.reviewers)
                 /\ latest.value = latest.reviewers[i + 1]

\* the hash equals -2^31 and the last of three candidates is returned
C25_Witness ==
    /\ latest.k = "return"
    /\ Len(latest.reviewers) = 3
    /\ hash = MinInt32
    /\ latest.value = latest.reviewers[3]

(***************************************************************************)
(* The order of the stages of a run (spec.md section 2).                   *)
(***************************************************************************)
StageOrder == <<"classify", "fetch", "select", "request">>

\* the fetched pool without the author
WithoutAuthor(list) == SelectSeq(list, LAMBDA e : ~IsAuthor(e))

\* C26: the stages of a run are entered in the order classifier, fetcher,
\* selector, request-review, each at most once: the fetcher is called with
\* the tier the classifier returned, the selector only after the fetcher
\* returned a list and on that list without the author, and the
\* request-review call only after the selector returned, naming exactly
\* the identity it returned.
C26_StagesInOrder ==
    /\ Len(stages) <= 4
    /\ stages = SubSeq(StageOrder, 1, Len(stages))
    /\ Len(stages) # 1
    /\ urgency \in Tiers <=> Len(stages) >= 2
    /\ calls > 0 => Len(stages) >= 2
    /\ \A i \in 1..Len(requests) : requests[i].url[2] = urgency
    /\ Invoked(latest) <=> Len(stages) >= 3
    /\ Invoked(latest)
       => /\ fpc = "done"
          /\ PoolReturned
          /\ latest.reviewers = WithoutAuthor(result)
          /\ latest.seed = seed
          /\ latest.prNumber = prNumber
    /\ reviewRequests # <<>> <=> Len(stages) = 4
    /\ reviewRequests # <<>>
       => /\ Len(reviewRequests) = 1
          /\ latest.k = "return"
          /\ reviewRequests[1].reviewers = <<latest.value>>
          /\ reviewRequests[1].pull_number = prNumber

\* a run that retried the fetch once, selected from the pool without its
\* author and had the review requested
C26_Witness ==
    /\ rpc = "end"
    /\ ReviewRequested
    /\ stages = StageOrder
    /\ calls = 2
    /\ prAuthor = "alice"
    /\ Len(result) = 3
    /\ latest.reviewers = <<Str("bob"), Str("carol")>>

(***************************************************************************)
(* The classifier and the order of the lines (spec.md section 4.1).        *)
(***************************************************************************)
\* the rearrangements of n positions
Rearrangements(n) ==
    {p \in [1..n -> 1..n] : \A i, j \in 1..n : p[i] = p[j] => i = j}

\* the lines ls with a copy of line i put in front of position j
WithCopy(ls, i, j) ==
    SubSeq(ls, 1, j - 1) \o <<ls[i]>> \o SubSeq(ls, j, Len(ls))

\* the description whose lines are ls is classified as the current one is
SameTier(ls) ==
    detectUrgency(joinLines(ls), checkbox.p0, checkbox.p1, checkbox.p2) = urgency

\* C27: detectUrgency returns the same tier for every permutation of the
\* lines of a description and for the description with any of its lines
\* repeated.
C27_OrderAndRepetitionIgnored ==
    urgency # "none"
    => LET ls == bodyLines
           n == Len(ls)
       IN  /\ \A p \in Rearrangements(n) : SameTier([i \in 1..n |-> ls[p[i]]])
           /\ \A i \in 1..n : \A j \in 1..(n + 1) : SameTier(WithCopy(ls, i, j))

\* three checked lines of three different tiers, the lowest tier first
C27_Witness ==
    /\ urgency = "p0"
    /\ Len(bodyLines) = 3
    /\ lineFlag(bodyLines[1], checkbox.p0, checkbox.p1, checkbox.p2) = "p2"
    /\ lineFlag(bodyLines[2], checkbox.p0, checkbox.p1, checkbox.p2) = "p1"
    /\ lineFlag(bodyLines[3], checkbox.p0, checkbox.p1, checkbox.p2) = "p0"

(***************************************************************************)
(* Termination of fetchReviewers, checked under SpecFetchFair.             *)
(***************************************************************************)
\* the texts of the fallback after the loop, lines 372-377
FallbackReported ==
    \/ \E i \in 1..Len(warnings) :
          includes(warnings[i], <<"unavailable", "after", "retries.">>)
    \/ includes(thrown.message, <<"unavailable", "after", "retries">>)

\* the invocation has ended in exactly one of its three outcomes
EndedInOneOutcome ==
    /\ fpc = "done"
    /\ inflight = 0
    /\ \/ outcome = "list" /\ thrown = NoError
       \/ outcome = "null" /\ result = <<>> /\ thrown = NoError
       \/ outcome = "throw" /\ result = <<>> /\ thrown # NoError

\* C28: when every network call completes, every invocation of
\* fetchReviewers ends, for good, in exactly one of the outcomes list, null
\* and raised error, decided inside the attempt loop: the loop is never
\* left by its test and the fallback after it never reports.
C28_TerminatesInsideLoop ==
    /\ <>[]EndedInOneOutcome
    /\ [](fpc = "sleep" => attempt < maxRetries)
    /\ [](~FallbackReported)
    /\ [](fpc # "done" => outcome = "pending")

\* the outcome is decided in the last iteration the loop allows
C28_Witness ==
    /\ fpc = "done"
    /\ attempt = maxRetries
    /\ calls = 3
    /\ outcome = "null"
    /\ IsRejection(received[3])

====
